---- MODULE Spec2Model ----
(***************************************************************************)
(* Model of the GRU forecasting engine (src/gru.js, class GRUModel) and of *)
(* the handlers of StockPredictorApp (src/app.js) that drive it.           *)
(*                                                                         *)
(* JavaScript runs one task at a time: every action below is one run of    *)
(* synchronous code, from the start of a call or the resumption of an      *)
(* await up to the next await that really yields to the host (model.fit's  *)
(* epochs, tf.nextFrame, tensor.array()).  Other handlers interleave only  *)
(* between actions.                                                        *)
(***************************************************************************)
EXTENDS Integers, Sequences, FiniteSets, TLC

\* ---------------------------------------------------------------- bounds
MaxNets     == 2   \* networks tf.sequential() may allocate in one behaviour
MaxEpochs   == 2   \* largest epochs argument passed to train
MaxCaptures == 2   \* chart captures (getTestPredictionsForChart) in flight

\* ------------------------------------------------------ program constants
DefaultHorizon == 5     \* constructor default predictionHorizon
OutputUnits    == 1     \* units of the output dense layer
TrainBatchSize == 256   \* this.batchSize
EvalBatchCap   == 128   \* Math.min(128, ...)
DefaultLoss    == 1000  \* 0.001, in millionths
DefaultRmse    == 32    \* 0.032, in thousandths
PercentScale   == 100   \* a progress of 1 (percent) is written as 100

\* ------------------------------------------------------------ value sets
NoModel == 0            \* this.model === null
Null    == 0            \* a null testPredictions / actualTestValues
Absent  == -1           \* a tensor argument that is null / undefined
Undefined == -2         \* a property an object does not have
ManySamples == 300
\* A tensor argument is Absent or the number of samples, shape[0].
Tensors == {Absent, 0, 1, ManySamples}
\* The (inputs, targets) pairs a caller passes: equal sample counts, or one
\* of the two absent or empty.
TensorPairs ==
    {<<X, X>> : X \in Tensors} \cup
    {<<Absent, ManySamples>>, <<ManySamples, Absent>>, <<0, ManySamples>>, <<ManySamples, 0>>}
\* predictionHorizon values a GRUModel is constructed with.
Horizons == {1, DefaultHorizon}
\* Losses model.evaluate may compute, in millionths (perfect squares, so
\* that Math.sqrt is exact in thousandths).
LossValues == {400, 900}
\* How model.evaluate ends: it throws, or it yields a loss.
EvalOutcomes ==
    {[fail |-> TRUE, loss |-> 0]} \cup {[fail |-> FALSE, loss |-> l] : l \in LossValues}
EvalIds == 1..(MaxCaptures + 3)

VARIABLES
    predictionHorizon,  \* this.predictionHorizon
    model,              \* this.model: NoModel or the network's number
    isTrained,          \* this.isTrained
    trainingHistory,    \* this.trainingHistory
    testPredictions,    \* this.testPredictions: Null or the evaluation it stems from
    actualTestValues,   \* this.actualTestValues: Null or the evaluation it stems from
    netAlloc,           \* number of networks allocated by tf.sequential()
    netReleases,        \* per network: how often model.dispose() ran on it
    modelFitted,        \* a model.fit on the network in this.model has resolved
    tr,                 \* the train call in flight
    events,             \* callbacks invoked so far by the train call in flight
    captures,           \* getTestPredictionsForChart calls in flight
    escaped,            \* an error left an async function nobody awaits
    last,               \* the call the last step made, and what it did
    done,               \* the train call the last step ended, and how
    isTraining,         \* app.isTraining
    trainEnabled,       \* trainBtn is enabled
    predictEnabled      \* predictBtn is enabled

gruFields == <<model, isTrained, trainingHistory, testPredictions, actualTestValues>>
appVars == <<isTraining, trainEnabled, predictEnabled>>
vars == <<predictionHorizon, model, isTrained, trainingHistory, testPredictions,
          actualTestValues, netAlloc, netReleases, modelFitted, tr, events,
          captures, escaped, last, done, isTraining, trainEnabled, predictEnabled>>

Min(a, b) == IF a < b THEN a ELSE b

\* Math.sqrt on a loss in millionths, result in thousandths.
RECURSIVE SqrtFrom(_, _)
SqrtFrom(x, r) == IF (r + 1) * (r + 1) > x THEN r ELSE SqrtFrom(x, r + 1)
Sqrt(x) == SqrtFrom(x, 0)

\* { loss: 0.001, mse: 0.001, rmse: 0.032 }
DefaultMetrics == [loss |-> DefaultLoss, mse |-> DefaultLoss, rmse |-> DefaultRmse]
\* { loss, mse: loss, rmse: Math.sqrt(loss) }
ComputedMetrics(loss) == [loss |-> loss, mse |-> loss, rmse |-> Sqrt(loss)]

\* evaluate's guard: the model is absent or not trained.
NotReadyModelOnly(m, trained) == m = NoModel
NotReady(m, trained) == m = NoModel \/ ~trained

\* The record a call leaves in `last`: how it ended and with what, the
\* fields it found (hadModel, wasTrained, hadCharts), whether it reached a
\* model computation, whether it changed a field of the GRUModel, how many
\* networks it released, the number of the evaluation it captured, its
\* first argument (arg) and whether a train call was in flight when it
\* started (busy).
Call(op, outcome, ret, computed, mutated) ==
    [op |-> op, outcome |-> outcome, ret |-> ret,
     hadModel |-> model # NoModel, wasTrained |-> isTrained,
     hadCharts |-> (testPredictions # Null \/ actualTestValues # Null),
     computed |-> computed, mutated |-> mutated, released |-> 0, id |-> Null,
     arg |-> Null, busy |-> tr.pc # "idle"]
NoCall == [op |-> "none", outcome |-> "return", ret |-> Null, hadModel |-> FALSE,
           wasTrained |-> FALSE, hadCharts |-> FALSE, computed |-> FALSE,
           mutated |-> FALSE, released |-> 0, id |-> Null, arg |-> Null,
           busy |-> FALSE]

\* What the page shows in the step that ends a train call the app started
\* (cb = "app"), in order.  The app's onTrainEnd, which train calls when
\* fit has resolved and also when it has rejected, shows the success status
\* and appends the metric cards; the handler's catch block, which runs when
\* train throws, shows the warning status.
AppShown(cb, outcome) ==
    IF cb # "app" THEN <<>>
    ELSE (IF outcome \in {"success", "failure"} THEN <<"success", "cards">> ELSE <<>>)
            \o (IF outcome # "success" THEN <<"warning">> ELSE <<>>)

\* The record the end of a train call leaves in `done`.
NoDone == [outcome |-> "none", cb |-> "none", epochs |-> 0, epochsRun |-> 0,
           trained |-> FALSE, events |-> <<>>, ui |-> <<>>]
IdleTrain == [pc |-> "idle", epoch |-> 0, epochs |-> 0, cb |-> "none", net |-> NoModel]

Init ==
    /\ predictionHorizon \in Horizons
    /\ model = NoModel
    /\ isTrained = FALSE
    /\ trainingHistory = Null
    /\ testPredictions = Null
    /\ actualTestValues = Null
    /\ netAlloc = 0
    /\ netReleases = [n \in 1..MaxNets |-> 0]
    /\ modelFitted = FALSE
    /\ tr = IdleTrain
    /\ events = <<>>
    /\ captures = {}
    /\ escaped = FALSE
    /\ last = NoCall
    /\ done = NoDone
    /\ isTraining = FALSE
    /\ trainEnabled = FALSE
    /\ predictEnabled = FALSE

\* ------------------------------------------------------------- chart data
\* Evaluations are told apart by numbers, which are only names: after every
\* step the numbers still in use are renumbered in a fixed order (that of
\* testPredictions, then actualTestValues, then the captures awaiting
\* y_test.array(), then those awaiting the predictions), so that two states
\* that differ in the names alone are one state.  charts is a record of the
\* values a step gives to testPredictions (tp), actualTestValues (atv), the
\* captures in flight (caps) and the evaluation the step started (id).
NewName(charts, id) ==
    LET top   == {charts.tp} \ {Null}
        snd   == ({charts.atv} \ {Null}) \ top
        acts  == {c.id : c \in {d \in charts.caps : d.pc = "actuals"}} \ (top \cup snd)
        preds == {c.id : c \in {d \in charts.caps : d.pc = "predictions"}}
                     \ (top \cup snd \cup acts)
        Pos(S, i) == Cardinality({j \in S : j <= i})
    IN  CASE id = Null   -> Null
          [] id \in top   -> 1
          [] id \in snd   -> Cardinality(top) + 1
          [] id \in acts  -> Cardinality(top \cup snd) + Pos(acts, id)
          [] id \in preds -> Cardinality(top \cup snd \cup acts) + Pos(preds, id)
          [] OTHER        -> Null

SetCharts(charts) ==
    /\ testPredictions' = NewName(charts, charts.tp)
    /\ actualTestValues' = NewName(charts, charts.atv)
    /\ captures' = {[c EXCEPT !.id = NewName(charts, c.id)] : c \in charts.caps}

\* A capture in flight is stale once dispose has returned after the evaluate
\* call that started it, and until evaluate is called again.
Outlived(caps) == {[c EXCEPT !.stale = TRUE] : c \in caps}
Renewed(caps) == {[c EXCEPT !.stale = FALSE] : c \in caps}

\* What the resumption of a capture leaves in `last`.
CaptureCall(c) == [NoCall EXCEPT !.op = "capture", !.ret = [stale |-> c.stale]]

\* A number no evaluation in use has.
UsedIds == {c.id : c \in captures} \cup ({testPredictions, actualTestValues} \ {Null})
FreshId == CHOOSE i \in EvalIds \ UsedIds : \A j \in EvalIds \ UsedIds : i <= j

\* ------------------------------------------------------------- buildModel
\* tf.sequential() hands out the next network (bounded by MaxNets).
CanBuild == netAlloc < MaxNets

\* if (this.model) { this.model.dispose(); }
ReleasesNothing(m) == netReleases
ReleasesAfterDispose(m) ==
    IF m # NoModel THEN [netReleases EXCEPT ![m] = @ + 1] ELSE netReleases
Released(m) == IF m # NoModel THEN 1 ELSE 0

\* The calls buildModel makes on the backend, in order, up to the
\* allocation of the new network.
BuildSteps(m) ==
    (IF m # NoModel THEN <<"model.dispose">> ELSE <<>>)
        \o <<"tf.disposeVariables", "tf.sequential">>

BuildModel ==
    /\ CanBuild
    /\ netReleases' = ReleasesAfterDispose(model)
    /\ netAlloc' = netAlloc + 1
    /\ model' = netAlloc + 1
    /\ isTrained' = FALSE
    /\ modelFitted' = FALSE
    /\ UNCHANGED <<predictionHorizon, trainingHistory, testPredictions,
                   actualTestValues, tr, events, captures, escaped, appVars>>
    /\ last' = [Call("buildModel", "return",
                      [net |-> model', steps |-> BuildSteps(model)],
                      FALSE, gruFields' # gruFields)
                  EXCEPT !.released = Released(model)]
    /\ done' = NoDone

\* ---------------------------------------------------------------- dispose
\* this.model = null, inside if (this.model) { ... }
ModelKeptAfterDispose == model
ModelAfterDispose == NoModel
\* this.isTrained = false
TrainedAfterDispose == FALSE

Dispose ==
    /\ netReleases' = ReleasesAfterDispose(model)
    /\ model' = IF model # NoModel THEN ModelAfterDispose ELSE model
    /\ isTrained' = TrainedAfterDispose
    /\ SetCharts([tp |-> Null, atv |-> Null, caps |-> Outlived(captures)])
    /\ modelFitted' = (modelFitted /\ model' # NoModel)
    /\ UNCHANGED <<predictionHorizon, trainingHistory, netAlloc, tr, events,
                   escaped, appVars>>
    /\ last' = [Call("dispose", "return", Null, FALSE, gruFields' # gruFields)
                  EXCEPT !.released = Released(model)]
    /\ done' = NoDone

\* --------------------------------------------------------------- evaluate
\* What makes the try block of evaluate throw: X_test.shape on a null
\* X_test, or model.evaluate rejecting its arguments (no targets, a batch
\* size of 0, sample counts that differ) or failing numerically.
EvaluationThrows(X, y, fail) ==
    X = Absent \/ y = Absent \/ X = 0 \/ y # X \/ fail

\* batchSize: Math.min(128, X_test.shape[0])
EvalBatch(X) == Min(EvalBatchCap, X)

\* catch (error) { ...; return { loss: 0.001, mse: 0.001, rmse: 0.032 }; }
EvaluateCatchRethrows == [outcome |-> "raise", ret |-> Null]
EvaluateCatch == [outcome |-> "return", ret |-> DefaultMetrics]

\* getTestPredictionsForChart: if (!X_test || !y_test) return;
StartsCapture(X, y) == X # Absent /\ y # Absent

\* evaluate(X_test, y_test) on a GRUModel whose fields are m and trained:
\* how it ends, what it returns, whether model.evaluate was reached (and
\* with which batch size, for how many samples), whether the try block
\* threw, and whether a chart capture was started.
EvaluateOp(m, trained, X, y, o) ==
    IF NotReady(m, trained)
      THEN [outcome |-> "return", ret |-> DefaultMetrics, computed |-> FALSE,
            failed |-> FALSE, capture |-> FALSE, batch |-> 0, samples |-> X]
    ELSE IF EvaluationThrows(X, y, o.fail)
      THEN [outcome |-> EvaluateCatch.outcome, ret |-> EvaluateCatch.ret,
            computed |-> X # Absent, failed |-> TRUE, capture |-> FALSE,
            batch |-> IF X # Absent THEN EvalBatch(X) ELSE 0, samples |-> X]
    ELSE [outcome |-> "return", ret |-> ComputedMetrics(o.loss), computed |-> TRUE,
          failed |-> FALSE, capture |-> StartsCapture(X, y), batch |-> EvalBatch(X),
          samples |-> X]

\* The chart data after an evaluate that ended as e: getTestPredictionsForChart
\* has run up to its first await.
ChartsAfter(e) ==
    [tp |-> testPredictions, atv |-> actualTestValues,
     caps |-> IF e.capture
                THEN Renewed(captures) \cup
                         {[id |-> FreshId, pc |-> "predictions", stale |-> FALSE]}
                ELSE Renewed(captures),
     id |-> IF e.capture THEN FreshId ELSE Null]

\* `last` after an evaluate that ended as e on fields m and trained.
EvaluateCall(e, m, trained, mutated) ==
    [Call("evaluate", e.outcome,
          [metrics |-> e.ret, failed |-> e.failed, batch |-> e.batch],
          e.computed, mutated)
        EXCEPT !.hadModel = (m # NoModel), !.wasTrained = trained,
               !.id = NewName(ChartsAfter(e), ChartsAfter(e).id),
               !.arg = e.samples]

Evaluate(X, y, o) ==
    LET e == EvaluateOp(model, isTrained, X, y, o) IN
    /\ e.capture => Cardinality(captures) < MaxCaptures
    /\ SetCharts(ChartsAfter(e))
    /\ UNCHANGED <<predictionHorizon, model, isTrained, trainingHistory,
                   netAlloc, netReleases, modelFitted, tr, events, escaped,
                   appVars>>
    /\ last' = EvaluateCall(e, model, isTrained, gruFields' # gruFields)
    /\ done' = NoDone

\* ----------------------------------------------- getTestPredictionsForChart
\* try { ... } catch (error) { console.error(...) }: nothing leaves the call.
CaptureErrorEscapes == FALSE

\* Resumption after `await this.predictTestData(X_test)`: predictTestData
\* yields the predictions or, on a failure it catches itself, null; then
\* y_test.array() is called, and may throw at once.
CapturePredictions(c, predOk, yOk) ==
    /\ c \in captures /\ c.pc = "predictions"
    /\ SetCharts([tp |-> IF predOk THEN c.id ELSE Null,
                  atv |-> actualTestValues,
                  caps |-> IF yOk THEN (captures \ {c}) \cup {[c EXCEPT !.pc = "actuals"]}
                                  ELSE captures \ {c}])
    /\ escaped' = (escaped \/ (~yOk /\ CaptureErrorEscapes))
    /\ UNCHANGED <<predictionHorizon, model, isTrained, trainingHistory,
                   netAlloc, netReleases, modelFitted, tr,
                   events, appVars>>
    /\ last' = CaptureCall(c)
    /\ done' = NoDone

\* Resumption after `await y_test.array()`.
CaptureActuals(c, ok) ==
    /\ c \in captures /\ c.pc = "actuals"
    /\ SetCharts([tp |-> testPredictions,
                  atv |-> IF ok THEN c.id ELSE actualTestValues,
                  caps |-> captures \ {c}])
    /\ escaped' = (escaped \/ (~ok /\ CaptureErrorEscapes))
    /\ UNCHANGED <<predictionHorizon, model, isTrained, trainingHistory,
                   netAlloc, netReleases, modelFitted, tr,
                   events, appVars>>
    /\ last' = CaptureCall(c)
    /\ done' = NoDone

\* getTestChartData(): null while either of testPredictions and
\* actualTestValues is null, else the two series (here: the evaluations
\* they stem from).
GetTestChartData ==
    IF testPredictions = Null \/ actualTestValues = Null
      THEN [present |-> FALSE, predictions |-> Null, actuals |-> Null]
      ELSE [present |-> TRUE, predictions |-> testPredictions,
            actuals |-> actualTestValues]

\* ---------------------------------------------------------------- predict
\* return predictionsArray: one row per window, one value per output unit.
ForecastOfHorizon(X) == [rows |-> X, len |-> predictionHorizon, zeros |-> FALSE]
Forecast(X) == [rows |-> X, len |-> OutputUnits, zeros |-> FALSE]
\* return [Array(this.predictionHorizon).fill(0)]
ZeroForecast == [rows |-> 1, len |-> predictionHorizon, zeros |-> TRUE]

\* Windows passed to predict: none, one, or a batch.
PredictInputs == {Absent, 1, ManySamples}

\* if (!X) { throw new Error('Input data not provided'); }
WindowMissingNever(X) == FALSE
WindowMissing(X) == X = Absent

Predict(X, fail) ==
    LET build == model = NoModel IN
    /\ build => CanBuild
    /\ netAlloc' = IF build THEN netAlloc + 1 ELSE netAlloc
    /\ model' = IF build THEN netAlloc + 1 ELSE model
    /\ isTrained' = IF build THEN FALSE ELSE isTrained
    /\ modelFitted' = IF build THEN FALSE ELSE modelFitted
    /\ UNCHANGED <<predictionHorizon, trainingHistory, testPredictions,
                   actualTestValues, netReleases, tr, events, captures,
                   escaped, appVars>>
    /\ last' = [(IF WindowMissing(X)
                   THEN Call("predict", "raise", "Input data not provided", FALSE,
                             gruFields' # gruFields)
                   ELSE Call("predict", "return",
                             IF fail THEN ZeroForecast ELSE Forecast(X),
                             TRUE, gruFields' # gruFields))
                  EXCEPT !.arg = X]
    /\ done' = NoDone

\* ------------------------------------------------------------------ train
\* progress: ((epoch + 1) / epochs) * 100, in hundredths of a percent.
Progress(e, epochs) == ((e + 1) * 100 * PercentScale) \div epochs

\* logs.epochsRemaining of the object train passes to callbacks.onEpochEnd:
\* the object has loss, val_loss, elapsed and progress, and no such property.
EpochsRemaining(e, epochs) == Undefined

\* What a callback invocation leaves in `events`: which callback and its
\* first argument; for onEpochEnd the progress and epochsRemaining of its
\* logs, for onTrainEnd this.isTrained at that moment.
EpochEventOffByOne(e, epochs) ==
    [ev |-> "epoch", n |-> e + 1, arg |-> "logs", trained |-> FALSE,
     progress |-> Progress(e, epochs), remaining |-> EpochsRemaining(e, epochs)]
EpochEvent(e, epochs) ==
    [ev |-> "epoch", n |-> e, arg |-> "logs", trained |-> FALSE,
     progress |-> Progress(e, epochs), remaining |-> EpochsRemaining(e, epochs)]
EndEvent(arg, trained) == [ev |-> "end", n |-> 0, arg |-> arg, trained |-> trained]

\* const batchSize = Math.min(this.batchSize, sampleCount)
TrainBatchConfigured(X) == TrainBatchSize
TrainBatch(X) == Min(TrainBatchSize, X)

\* The synchronous head of train(X_train, y_train, epochs, callbacks), up
\* to `await this.model.fit(...)`: the lazy build, the two checks, the
\* batch size.  cb tells which callbacks the caller passed: none, callbacks
\* that return ("plain"), callbacks that throw whenever they are invoked
\* ("throws"), or those of the app ("app").
TrainBody(X, y, epochs, cb) ==
    LET build == model = NoModel
        net == IF build THEN netAlloc + 1 ELSE model
    IN
    /\ tr.pc = "idle"
    /\ build => CanBuild
    /\ netAlloc' = IF build THEN netAlloc + 1 ELSE netAlloc
    /\ model' = net
    /\ isTrained' = IF build THEN FALSE ELSE isTrained
    /\ modelFitted' = IF build THEN FALSE ELSE modelFitted
    /\ events' = <<>>
    /\ UNCHANGED <<predictionHorizon, trainingHistory, testPredictions,
                   actualTestValues, netReleases, captures, escaped>>
    /\ IF X = Absent \/ y = Absent
         THEN /\ tr' = IdleTrain
              /\ last' = Call("train", "raise",
                              [error |-> "Training data not provided",
                               inputsAbsent |-> (X = Absent)],
                              FALSE, gruFields' # gruFields)
              /\ done' = [NoDone EXCEPT !.outcome = "missing", !.cb = cb,
                                        !.epochs = epochs, !.trained = isTrained',
                                        !.ui = AppShown(cb, "missing")]
       ELSE IF X = 0 \/ y = 0
         THEN /\ tr' = IdleTrain
              /\ last' = Call("train", "raise",
                              [error |-> "No training samples available",
                               inputsAbsent |-> FALSE],
                              FALSE, gruFields' # gruFields)
              /\ done' = [NoDone EXCEPT !.outcome = "empty", !.cb = cb,
                                        !.epochs = epochs, !.trained = isTrained',
                                        !.ui = AppShown(cb, "empty")]
       ELSE /\ tr' = [pc |-> "fit", epoch |-> 0, epochs |-> epochs, cb |-> cb,
                      net |-> net]
            /\ last' = [Call("train", "await", TrainBatch(X), TRUE,
                             gruFields' # gruFields) EXCEPT !.arg = X]
            /\ done' = NoDone

\* train called directly, with no callbacks or with callbacks that only record.
Train(X, y, epochs, cb) ==
    /\ TrainBody(X, y, epochs, cb)
    /\ UNCHANGED appVars

\* model.fit runs one more epoch: for (epoch < epochs).  At its end fit calls
\* onEpochEnd, which calls callbacks.onEpochEnd (if given) and then awaits
\* tf.nextFrame().  An epoch needs the weights of the network fit was
\* called on: once that network is released, fit can only fail or, with no
\* epoch left to run, resolve.
FitEpoch ==
    /\ tr.pc = "fit" /\ tr.epoch < tr.epochs
    /\ netReleases[tr.net] = 0
    /\ events' = IF tr.cb # "none"
                   THEN Append(events, EpochEvent(tr.epoch, tr.epochs))
                   ELSE events
    /\ tr' = [tr EXCEPT !.pc = "frame"]
    /\ UNCHANGED <<predictionHorizon, model, isTrained, trainingHistory,
                   testPredictions, actualTestValues, netAlloc, netReleases,
                   modelFitted, captures, escaped, appVars>>
    /\ last' = NoCall
    /\ done' = NoDone

\* tf.nextFrame() resolves: the epoch is over.
NextFrame ==
    /\ tr.pc = "frame"
    /\ tr' = [tr EXCEPT !.pc = "fit", !.epoch = @ + 1]
    /\ UNCHANGED <<predictionHorizon, model, isTrained, trainingHistory,
                   testPredictions, actualTestValues, netAlloc, netReleases,
                   modelFitted, events, captures, escaped, appVars>>
    /\ last' = NoCall
    /\ done' = NoDone

\* this.isTrained = true, after fit has resolved.
TrainedAfterFitUnset == isTrained
TrainedAfterFit == TRUE
\* catch (error) { ... }: isTrained is left as it is.
TrainedAfterFailure == isTrained

\* if (callbacks.onTrainEnd) { callbacks.onTrainEnd(arg) }, on the success
\* path (arg: the elapsed time) and in the catch block (arg: 0).
EventsAtTrainEndOnSuccessOnly(evs, cb, arg, trained) ==
    IF cb # "none" /\ arg # "zero" THEN Append(evs, EndEvent(arg, trained)) ELSE evs
EventsAtTrainEnd(evs, cb, arg, trained) ==
    IF cb # "none" THEN Append(evs, EndEvent(arg, trained)) ELSE evs

\* The end of a train call: isTrained becomes trained, callbacks.onTrainEnd(arg)
\* runs if it was given, then train returns or throws (outcome).
TrainEnd(outcome, arg, trained) ==
    LET evs == EventsAtTrainEnd(events, tr.cb, arg, trained) IN
    /\ isTrained' = trained
    /\ tr' = IdleTrain
    /\ events' = <<>>
    /\ done' = [outcome |-> outcome, cb |-> tr.cb, epochs |-> tr.epochs,
                epochsRun |-> tr.epoch, trained |-> trained, events |-> evs,
                ui |-> AppShown(tr.cb, outcome)]
    /\ UNCHANGED <<predictionHorizon, model, trainingHistory, netAlloc,
                   netReleases, escaped>>

\* How train ends when the callback it has just invoked throws (cb =
\* "throws"): every invocation sits in a try { ... } catch (e) {
\* console.warn(...) } of its own, so train ends as it would have.
OutcomeThrownByCallback(outcome) == "failure"
OutcomeAfterCallback(outcome) == outcome

\* fit has run its epochs and resolves: lines 129-142.
FitResolve ==
    /\ tr.pc = "fit" /\ tr.epoch >= tr.epochs /\ tr.cb # "app"
    /\ modelFitted' = (modelFitted \/ tr.net = model)
    /\ TrainEnd(IF tr.cb = "throws" THEN OutcomeAfterCallback("success") ELSE "success",
                "elapsed", TrainedAfterFit)
    /\ UNCHANGED <<testPredictions, actualTestValues, captures, appVars>>
    /\ last' = NoCall

\* fit rejects (its arguments, or a numeric failure in an epoch): lines 144-157.
FitFail ==
    /\ tr.pc = "fit" /\ (tr.epoch < tr.epochs \/ tr.epoch = 0) /\ tr.cb # "app"
    /\ TrainEnd("failure", "zero", TrainedAfterFailure)
    /\ UNCHANGED <<modelFitted, testPredictions, actualTestValues, captures, appVars>>
    /\ last' = NoCall

\* ------------------------------------------------------- StockPredictorApp
\* autoLoadData has loaded the CSV: trainBtn.disabled = false.
AppAutoLoadDone ==
    /\ ~trainEnabled
    /\ trainEnabled' = TRUE
    /\ UNCHANGED <<predictionHorizon, model, isTrained, trainingHistory,
                   testPredictions, actualTestValues, netAlloc, netReleases,
                   modelFitted, tr, events, captures, escaped, isTraining,
                   predictEnabled>>
    /\ last' = NoCall
    /\ done' = NoDone

\* loadDataBtn: loadData() calls this.model.dispose() before it reloads.
AppLoadData == Dispose

\* this.isTraining = false, in the catch block.
TrainingAfterCatchStuck == TRUE
TrainingAfterCatch == FALSE

\* The catch block of trainModel / fastTrainModel.
AppTrainCaught ==
    /\ isTraining' = TrainingAfterCatch
    /\ predictEnabled' = TRUE
    /\ UNCHANGED trainEnabled

\* The head of trainModel / fastTrainModel once train has been called:
\* isTraining stays true while the call is in flight.
AppTrainStarted ==
    IF tr'.pc = "idle"
      THEN AppTrainCaught
      ELSE isTraining' = TRUE /\ UNCHANGED <<trainEnabled, predictEnabled>>

\* trainBtn of app.js: trainModel().  X, y are the data loader's training
\* tensors, epochs the parsed input field (never 0: `|| 12`).
AppTrainModel(X, y, epochs) ==
    /\ trainEnabled /\ ~isTraining
    /\ IF X = Absent \/ y = Absent
         THEN /\ AppTrainCaught
              /\ UNCHANGED <<predictionHorizon, model, isTrained, trainingHistory,
                             testPredictions, actualTestValues, netAlloc,
                             netReleases, modelFitted, tr, events, captures, escaped>>
              /\ last' = NoCall
              /\ done' = NoDone
         ELSE /\ TrainBody(X, y, epochs, "app")
              /\ AppTrainStarted

\* trainBtn of the fast variant of app.js: fastTrainModel() passes the
\* tensors to train unchecked.
AppFastTrainModel(X, y, epochs) ==
    /\ trainEnabled /\ ~isTraining
    /\ TrainBody(X, y, epochs, "app")
    /\ AppTrainStarted

\* The app's onTrainEnd, run by TrainEnd with isTrained = trained: it clears
\* isTraining, enables predictBtn and calls this.model.evaluate on the data
\* loader's test tensors.
AppOnTrainEnd(trained, Xt, yt, o) ==
    LET e == EvaluateOp(model, trained, Xt, yt, o) IN
    /\ isTraining' = FALSE
    /\ predictEnabled' = TRUE
    /\ UNCHANGED trainEnabled
    /\ e.capture => Cardinality(captures) < MaxCaptures
    /\ SetCharts(ChartsAfter(e))
    /\ last' = EvaluateCall(e, model, trained, FALSE)

\* Test tensors of the data loader: null after its dispose(), loaded otherwise.
TestTensors == {Absent, ManySamples}

\* The train call started by the app resolves.
AppFitResolve(Xt, yt, o) ==
    /\ tr.pc = "fit" /\ tr.epoch >= tr.epochs /\ tr.cb = "app"
    /\ modelFitted' = (modelFitted \/ tr.net = model)
    /\ TrainEnd("success", "elapsed", TrainedAfterFit)
    /\ AppOnTrainEnd(TrainedAfterFit, Xt, yt, o)

\* The train call started by the app rejects; the handler's catch block runs.
AppFitFail(Xt, yt, o) ==
    /\ tr.pc = "fit" /\ (tr.epoch < tr.epochs \/ tr.epoch = 0) /\ tr.cb = "app"
    /\ UNCHANGED modelFitted
    /\ TrainEnd("failure", "zero", TrainedAfterFailure)
    /\ AppOnTrainEnd(TrainedAfterFailure, Xt, yt, o)

\* predictBtn: makePredictions() on the last window of the loaded series.
AppMakePredictions(fail) ==
    /\ predictEnabled
    /\ Predict(1, fail)

\* --------------------------------------------------------------- behaviours
\* The ways an evaluate call on tensors X, y can go: when the tensors alone
\* make the try block throw, there is one; else model.evaluate fails or
\* yields one of the losses.
EvalOutcomesFor(X, y) ==
    IF EvaluationThrows(X, y, FALSE) THEN {o \in EvalOutcomes : o.fail} ELSE EvalOutcomes

CaptureStep ==
    \/ \E c \in captures, predOk \in BOOLEAN, yOk \in BOOLEAN :
          CapturePredictions(c, predOk, yOk)
    \/ \E c \in captures, ok \in BOOLEAN : CaptureActuals(c, ok)

\* A program that calls the methods of one GRUModel in any order, also
\* while a train call or a chart capture is in flight.  Its train calls
\* pass no callbacks and ask for one epoch.
Next ==
    \/ BuildModel
    \/ Dispose
    \/ \E p \in TensorPairs : \E o \in EvalOutcomesFor(p[1], p[2]) : Evaluate(p[1], p[2], o)
    \/ CaptureStep
    \/ \E X \in PredictInputs, fail \in BOOLEAN : Predict(X, fail)
    \/ \E p \in TensorPairs : Train(p[1], p[2], 1, "none")
    \/ FitEpoch
    \/ NextFrame
    \/ FitResolve
    \/ FitFail

Spec == Init /\ [][Next]_vars

\* A program that trains: train with every kind of argument, and the calls
\* that change the model (buildModel, predict, dispose) at any point of it.
TrainNext ==
    \/ BuildModel
    \/ Dispose
    \/ \E X \in PredictInputs, fail \in BOOLEAN : Predict(X, fail)
    \/ \E p \in TensorPairs, epochs \in 0..MaxEpochs, cb \in {"none", "plain", "throws"} :
          Train(p[1], p[2], epochs, cb)
    \/ FitEpoch
    \/ NextFrame
    \/ FitResolve
    \/ FitFail

TrainSpec == Init /\ [][TrainNext]_vars

\* The page: the user's clicks and the resumptions of what they started.
AppNext ==
    \/ AppAutoLoadDone
    \/ AppLoadData
    \/ \E p \in TensorPairs, epochs \in 1..MaxEpochs : AppTrainModel(p[1], p[2], epochs)
    \/ \E p \in TensorPairs, epochs \in 1..MaxEpochs : AppFastTrainModel(p[1], p[2], epochs)
    \/ \E fail \in BOOLEAN : AppMakePredictions(fail)
    \/ FitEpoch
    \/ NextFrame
    \/ \E Xt \in TestTensors, yt \in TestTensors :
          \E o \in EvalOutcomesFor(Xt, yt) : AppFitResolve(Xt, yt, o)
    \/ \E Xt \in TestTensors, yt \in TestTensors :
          \E o \in EvalOutcomesFor(Xt, yt) : AppFitFail(Xt, yt, o)
    \/ CaptureStep

AppSpec == Init /\ [][AppNext]_vars

\* ------------------------------------------------------------------ claims
Max(a, b) == IF a > b THEN a ELSE b
EpochEvents(evs) == SelectSeq(evs, LAMBDA x : x.ev = "epoch")
EndEvents(evs) == SelectSeq(evs, LAMBDA x : x.ev = "end")

\* C1: when model.fit fails during train, isTrained is true at the moment
\* the failure is propagated to the caller, whatever it was before the call.
C1_TrainedWhenFailurePropagates ==
    done.outcome = "failure" => done.trained

\* C2: evaluate on a GRUModel whose model is absent or whose isTrained is
\* false returns exactly the default metrics, reaches no model computation
\* and changes no field of the GRUModel.
C2_EvaluateDefaultWhenNotReady ==
    (last.op = "evaluate" /\ (~last.hadModel \/ ~last.wasTrained)) =>
        /\ last.outcome = "return"
        /\ last.ret.metrics = DefaultMetrics
        /\ ~last.computed
        /\ ~last.mutated
\* evaluate has just returned on a built, never trained model.
C2_Witness ==
    /\ last.op = "evaluate" /\ last.hadModel /\ ~last.wasTrained
    /\ last.ret.metrics = DefaultMetrics

\* C3: train called with X_train absent raises the missing-data error
\* having changed no field of the GRUModel and invoked no callback.
C3_MissingInputsMutateNothing ==
    (last.op = "train" /\ last.outcome = "raise" /\ last.ret.inputsAbsent) =>
        ~last.mutated /\ done.events = <<>>

\* C4: a predict whose numeric step fails does not raise and returns a
\* zero-filled forecast as long as the forecast a successful predict returns.
C4_ZeroForecastHasSuccessLength ==
    (last.op = "predict" /\ last.outcome = "return" /\ last.ret.zeros) =>
        last.ret.len = Forecast(1).len

\* C5: predict on a window returns a forecast whose length is the configured
\* predictionHorizon (5 numbers for a GRUModel built with predictionHorizon 5).
C5_ForecastHasHorizonLength ==
    (last.op = "predict" /\ last.outcome = "return") =>
        last.ret.len = predictionHorizon
\* C5 as amended: a predict that succeeds returns, per window, as many
\* numbers as the output layer has units (1, whatever predictionHorizon
\* is); only the zero-filled fallback has predictionHorizon entries.
C5_ForecastLengths ==
    (last.op = "predict" /\ last.outcome = "return") =>
        last.ret.len = IF last.ret.zeros THEN predictionHorizon ELSE OutputUnits
\* predict has just succeeded on a GRUModel of predictionHorizon 5.
C5_Witness ==
    /\ last.op = "predict" /\ last.outcome = "return" /\ ~last.ret.zeros
    /\ predictionHorizon = DefaultHorizon /\ isTrained

\* C6: evaluate never raises: on a trained model a failure of the
\* evaluation step (also for an absent or empty test set) yields the default
\* metrics, and no error escapes from the chart capture it starts.
C6_EvaluateNeverRaises ==
    /\ last.op = "evaluate" =>
          /\ last.outcome = "return"
          /\ last.ret.failed => last.ret.metrics = DefaultMetrics
    /\ ~escaped
\* evaluate has just caught a failure on a built and trained model.
C6_Witness ==
    /\ last.op = "evaluate" /\ last.hadModel /\ last.wasTrained
    /\ last.ret.failed /\ last.outcome = "return"

\* C7: dispose raises nothing and leaves model absent, isTrained false and
\* the chart data cleared; called in that state again it changes nothing
\* and releases nothing, and no network is ever released twice.
C7_DisposeIdempotent ==
    /\ last.op = "dispose" =>
          /\ last.outcome = "return"
          /\ model = NoModel /\ ~isTrained
          /\ testPredictions = Null /\ actualTestValues = Null
    /\ (last.op = "dispose" /\ ~last.hadModel /\ ~last.wasTrained /\ ~last.hadCharts) =>
          ~last.mutated /\ last.released = 0
    /\ \A n \in 1..MaxNets : netReleases[n] <= 1
\* dispose has just run on a GRUModel whose network an earlier dispose released.
C7_Witness ==
    /\ last.op = "dispose" /\ ~last.hadModel /\ ~last.wasTrained /\ ~last.hadCharts
    /\ netAlloc = 1 /\ netReleases[1] = 1

\* C8: when train returns without error isTrained is true, and onTrainEnd
\* (if given) was the last callback invoked, with the elapsed time, at a
\* point where isTrained was already true.
C8_SuccessMeansTrained ==
    done.outcome = "success" =>
        /\ done.trained /\ isTrained
        /\ done.cb # "none" =>
              /\ Len(EndEvents(done.events)) = 1
              /\ done.events[Len(done.events)] = EndEvent("elapsed", TRUE)
\* train has just returned after at least one epoch, with callbacks given.
C8_Witness ==
    done.outcome = "success" /\ done.cb = "plain" /\ done.epochsRun >= 1

\* C9: isTrained is true only while a model is built and a training run on
\* that model has completed since it was built.
C9_TrainedOnlyIfModelFitted ==
    isTrained => (model # NoModel /\ modelFitted)

\* C10: a train call that returns has run max(1, epochs) epochs, one
\* progress event each, and has invoked onTrainEnd.
C10_EpochsClampedToOne ==
    done.outcome = "success" =>
        /\ done.epochsRun = Max(1, done.epochs)
        /\ done.cb # "none" =>
              /\ Len(EpochEvents(done.events)) = Max(1, done.epochs)
              /\ Len(EndEvents(done.events)) = 1

\* C11: in a train call of E >= 1 epochs that completes, the progress
\* events carry a progress that is above 0 at the first event, strictly
\* increases and is 100 at the last, and an epochsRemaining that decreases
\* from event to event and is 0 at the last.
C11_ProgressAndEpochsRemaining ==
    (done.outcome = "success" /\ done.cb # "none" /\ done.epochs >= 1) =>
        LET evs == EpochEvents(done.events)
            n   == Len(evs)
        IN  /\ n >= 1
            /\ evs[1].progress > 0
            /\ \A i \in 1..(n - 1) : evs[i].progress < evs[i + 1].progress
            /\ evs[n].progress = 100 * PercentScale
            /\ \A i \in 1..(n - 1) : evs[i].remaining > evs[i + 1].remaining
            /\ evs[n].remaining = 0

\* C12: after a train call with E epochs completes without error,
\* trainingHistory is a sequence of exactly E per-epoch records.
C12_HistoryHasEpochRecords ==
    (done.outcome = "success" /\ done.epochs >= 1) =>
        /\ trainingHistory # Null
        /\ Len(trainingHistory) = done.epochs

\* C13: train called with inputs and targets present but with zero samples
\* raises the empty-dataset error at once: no epoch is run, no callback is
\* invoked, and isTrained keeps the value it had before the call.
C13_EmptyDatasetRaisesAtOnce ==
    (last.op = "train" /\ last.outcome = "raise"
        /\ last.ret.error = "No training samples available") =>
        /\ done.outcome = "empty" /\ tr.pc = "idle"
        /\ done.epochsRun = 0 /\ done.events = <<>>
        /\ isTrained = last.wasTrained

\* C14: predict called with the window absent fails with the missing-input
\* error in every model state (never built, built, trained, disposed); it
\* reaches no model computation and returns no zero-filled fallback.
C14_AbsentWindowRaises ==
    (last.op = "predict" /\ last.arg = Absent) =>
        /\ last.outcome = "raise"
        /\ ~last.computed
        /\ last.ret = "Input data not provided"
\* predict has just been called without a window on a trained model.
C14_Witness ==
    /\ last.op = "predict" /\ last.arg = Absent
    /\ last.hadModel /\ last.wasTrained /\ last.outcome = "raise"

\* C15: no operation is started on the GRUModel while a train call on it is
\* in flight: whatever the user clicks (train, predict, reload) at a yield
\* point of a running train, no train, predict or dispose runs on the busy
\* model.
C15_NoOperationWhileBusy ==
    last.op \in {"train", "predict", "dispose"} => ~last.busy

\* C16: within one train call exactly one progress event is emitted at the
\* end of every epoch, with the indices 0, 1, ... in increasing order, each
\* followed by a yield (tf.nextFrame) before the next epoch starts, and all
\* of them before the single onTrainEnd of the call; a call that returns
\* has emitted one per epoch asked for.
C16_OneProgressEventPerEpoch ==
    /\ tr.cb # "none" =>
          /\ \A i \in 1..Len(events) : events[i].ev = "epoch" /\ events[i].n = i - 1
          /\ tr.pc = "fit" => Len(events) = tr.epoch
          /\ tr.pc = "frame" => Len(events) = tr.epoch + 1
    /\ (done.outcome \in {"success", "failure"} /\ done.cb # "none") =>
          LET n == Len(done.events) IN
          /\ n = done.epochsRun + 1
          /\ \A i \in 1..(n - 1) :
                done.events[i].ev = "epoch" /\ done.events[i].n = i - 1
          /\ done.events[n].ev = "end"
          /\ done.outcome = "success" => done.epochsRun = done.epochs
\* train has just returned after two epochs or more, with callbacks given.
C16_Witness ==
    /\ done.outcome = "success" /\ done.cb = "plain"
    /\ done.epochsRun >= 2 /\ Len(EpochEvents(done.events)) >= 2

\* The networks this GRUModel has allocated and not released.
Undisposed == {n \in 1..netAlloc : netReleases[n] = 0}

\* C17: buildModel releases the network held before (if any) and clears
\* the backend's variables before it allocates the new one, so that after
\* any sequence of buildModel, train, predict, evaluate and dispose calls
\* at most one network allocated by the GRUModel is undisposed: the one in
\* this.model.
C17_AtMostOneLiveNetwork ==
    /\ Cardinality(Undisposed) <= 1
    /\ Undisposed \subseteq {model}
    /\ last.op = "buildModel" =>
          LET steps == last.ret.steps
              n     == Len(steps)
          IN  /\ last.released = (IF last.hadModel THEN 1 ELSE 0)
              /\ steps[n] = "tf.sequential"
              /\ steps[n - 1] = "tf.disposeVariables"
              /\ last.hadModel => (n = 3 /\ steps[1] = "model.dispose")
\* buildModel has just replaced a network it had built before.
C17_Witness ==
    /\ last.op = "buildModel" /\ last.hadModel /\ last.released = 1
    /\ netAlloc = 2 /\ netReleases[1] = 1 /\ model = 2

\* C18: when evaluate on a trained model returns a computed result, the
\* predictions and the actual targets of that call are retained, so that
\* getTestChartData called once evaluate has returned yields them.
C18_ChartDataRetainedAfterEvaluate ==
    (last.op = "evaluate" /\ last.hadModel /\ last.wasTrained
        /\ last.computed /\ ~last.ret.failed) =>
        /\ GetTestChartData.present
        /\ GetTestChartData.predictions = last.id
        /\ GetTestChartData.actuals = last.id

\* C19: a train call that reaches the training step with N samples uses
\* the batch size min(256, N), which lies between 1 and N; evaluate uses
\* min(128, N_test), at most 128 whatever the training batch size.
C19_BatchSizes ==
    /\ (last.op = "train" /\ last.outcome = "await") =>
          /\ last.ret = (IF last.arg < TrainBatchSize THEN last.arg ELSE TrainBatchSize)
          /\ 1 <= last.ret /\ last.ret <= last.arg
    /\ (last.op = "evaluate" /\ last.computed) =>
          /\ last.ret.batch = (IF last.arg < EvalBatchCap THEN last.arg ELSE EvalBatchCap)
          /\ last.ret.batch <= EvalBatchCap
\* train has just reached model.fit with a single sample.
C19_Witness ==
    /\ last.op = "train" /\ last.outcome = "await"
    /\ last.arg = 1 /\ last.ret = 1

\* C20: a train call that passes its checks (data present, not empty)
\* invokes onTrainEnd exactly once, at its end, whether model.fit succeeds
\* or fails; a train call that fails a check never invokes it.
C20_TrainEndExactlyOnce ==
    /\ (done.outcome \in {"success", "failure"} /\ done.cb # "none") =>
          /\ Len(EndEvents(done.events)) = 1
          /\ done.events[Len(done.events)].ev = "end"
    /\ done.outcome \in {"missing", "empty"} => done.events = <<>>
    /\ tr.pc # "idle" => EndEvents(events) = <<>>
\* model.fit has just failed after an epoch, in a call with callbacks given.
C20_Witness ==
    /\ done.outcome = "failure" /\ done.cb = "plain" /\ done.epochsRun >= 1
    /\ Len(EndEvents(done.events)) = 1

\* C21: after dispose has returned, testPredictions and actualTestValues
\* stay null until evaluate is called again: a chart capture started by an
\* earlier evaluate that resumes after the dispose does not repopulate them.
C21_ChartDataStaysNullAfterDispose ==
    (last.op = "capture" /\ last.ret.stale) =>
        testPredictions = Null /\ actualTestValues = Null

\* C22: the app shows the success status and appends the metric cards
\* ('Model Status: Trained') only for a train call whose training step
\* succeeded: a train call whose training step fails shows neither, and so
\* never presents the default metrics as results of a completed training.
C22_SuccessShownOnlyOnSuccess ==
    (done.cb = "app" /\ done.outcome = "failure") =>
        \A i \in 1..Len(done.ui) : done.ui[i] \notin {"success", "cards"}

\* C23: app.isTraining is true exactly while a train call started by the
\* app is in flight: every exit of trainModel / fastTrainModel (success,
\* failure of the training step, missing or empty training data) resets
\* it, so the train button is not locked once the call has ended, and no
\* second training run starts while one is in flight.
C23_TrainingFlagFollowsTrain ==
    /\ tr.pc = "idle" => ~isTraining
    /\ ~isTraining => tr.pc = "idle"
    /\ (done.cb = "app" /\ done.outcome # "none") => ~isTraining
\* The app's train call has just failed its check of the training data.
C23_Witness ==
    /\ done.cb = "app" /\ done.outcome \in {"missing", "empty"}
    /\ tr.pc = "idle" /\ ~isTraining /\ trainEnabled

\* C24: for one GRUModel, whatever its predictionHorizon, the forecast
\* predict returns has the same length on the failure path as on the
\* success path: the number of output units of the built network.
C24_ForecastLengthSameOnBothPaths ==
    (last.op = "predict" /\ last.outcome = "return") =>
        /\ last.ret.len = OutputUnits
        /\ ZeroForecast.len = Forecast(last.arg).len

\* C25: callbacks that throw (onEpochEnd in every epoch, onTrainEnd) do not
\* change the outcome of train: every epoch still runs and is reported,
\* train returns, with isTrained true, exactly when fit has resolved, and
\* raises exactly when fit has rejected, having invoked onTrainEnd once.
C25_ThrowingCallbacksChangeNothing ==
    (done.cb = "throws" /\ done.outcome \in {"success", "failure"}) =>
        LET end == done.events[Len(done.events)] IN
        /\ end.ev = "end"
        /\ done.outcome = (IF end.arg = "elapsed" THEN "success" ELSE "failure")
        /\ end.arg = "elapsed" =>
              (done.trained /\ isTrained /\ done.epochsRun = done.epochs)
        /\ Len(EpochEvents(done.events)) = done.epochsRun
        /\ Len(EndEvents(done.events)) = 1
\* train has just returned after two epochs whose callbacks all threw.
C25_Witness ==
    /\ done.cb = "throws" /\ done.outcome = "success"
    /\ done.epochsRun >= 2 /\ isTrained

\* C26: whenever testPredictions and actualTestValues are both non-null
\* they stem from the same evaluate call, also when evaluate is called
\* again before the capture of an earlier call has finished:
\* getTestChartData never pairs the predictions of one evaluation with the
\* actuals of another.
C26_ChartDataFromOneEvaluation ==
    /\ (testPredictions # Null /\ actualTestValues # Null) =>
          testPredictions = actualTestValues
    /\ GetTestChartData.present =>
          GetTestChartData.predictions = GetTestChartData.actuals

====
